---- MODULE Spec2Model ----
(***************************************************************************)
(* Model of aidl/biometrics/fingerprint/Fingerprint.cpp: the constructor   *)
(* (module discovery through openHal, UDFPS handler set-up), the two       *)
(* binder operations getSensorProps and createSession, the static vendor   *)
(* callback notify, and the destructor.                                    *)
(*                                                                         *)
(* One Fingerprint instance is modelled.  The constructor and openHal run  *)
(* statement by statement, with the vendor side (hw_get_module_by_class,   *)
(* open, set_notify, close, the UDFPS factory) answering                   *)
(* nondeterministically.  notify runs on a vendor thread and is split at   *)
(* each of its reads of thisPtr->mSession, since nothing in the code       *)
(* orders them against the binder thread.                                  *)
(***************************************************************************)
EXTENDS Integers, Sequences, FiniteSets, TLC

\* ------------------------------------------------------------------ bounds

\* The number of createSession calls a behaviour may make.
MaxSessions == 2

\* ------------------------------------------------------- program constants

nullptr == 0

SENSOR_ID == 0

MAX_ENROLLMENTS_PER_USER == 7

SENSOR_STRENGTH == "STRONG"

\* HARDWARE_MODULE_API_VERSION(2, 1): ((maj & 0xff) << 8) | (min & 0xff)
kVersion == (2 * 256) + 1

\* The module table, in its listed order.
kModules ==
    << [id_name |-> "fingerprint.goodix_fod", sensor_type |-> "UNDER_DISPLAY_OPTICAL"],
       [id_name |-> "fingerprint",            sensor_type |-> "UNDER_DISPLAY_OPTICAL"] >>

NumModules == Len(kModules)

\* ------------------------------------------------------ environment inputs

\* Versions a vendor device may report: 2.1 (expected), 2.0 and 3.0.
DeviceVersions == {kVersion, 2 * 256, 3 * 256}

\* What hw_get_module_by_class may answer: an error, success with no module,
\* a module without an open method, a module with one.
ModuleAnswers ==
    { [err |-> -2, mdl |-> "null"],
      [err |-> 0,  mdl |-> "null"],
      [err |-> 0,  mdl |-> "no_open"],
      [err |-> 0,  mdl |-> "ok"] }

\* Return codes of the vendor's open, set_notify and close.
ErrCodes == {0, -22}

\* A system property is either unset or holds an int32.
PropStore ==
    {[set |-> FALSE, val |-> 0]} \cup {[set |-> TRUE, val |-> v] : v \in {-2, 0, 3}}

\* ----------------------------------------------------------------- state

VARIABLES
    pc,                     \* where the instance is in its life
    aborted,                \* "no", "check" (CHECK failed), "segv"
    sInstance,              \* static Fingerprint* sInstance: "null" or "this"
    mSession,               \* 0 or the id of the session held
    mSensorType,
    mMaxEnrollmentsPerUser,
    mSupportsGestures,
    mDevice,                \* 0 or a device handle
    mUdfpsHandlerFactory,   \* 0 or 1
    mUdfpsHandler,          \* 0 or 1
    modIdx,                 \* the constructor's position in kModules
    halMdl,                 \* openHal's hw_mdl: "null", "no_open", "ok"
    halDev,                 \* openHal's local device
    halTrace,               \* steps of the running/last openHal, with outcome
    attempts,               \* openHal calls the constructor made, with result
    devices,                \* vendor side: per handle, its state
    factoryQueries,         \* calls of getUdfpsHandlerFactory
    initCalls,              \* device arguments of UdfpsHandler::init calls
    dtorLog,                \* vendor calls made by the destructor
    nSessions,              \* sessions created so far (ids 1..nSessions)
    closed,                 \* ids of the sessions that are closed
    out,                    \* createSession's *out, as last written
    props,                  \* getSensorProps' status and *out, as last written
    npc,                    \* the notify thread's position
    nChecked,               \* what notify's condition saw
    lastNotify              \* what the last finished notify did

inst == <<sInstance, mSession, mSensorType, mMaxEnrollmentsPerUser,
          mSupportsGestures, mDevice, mUdfpsHandlerFactory, mUdfpsHandler>>
halv == <<modIdx, halMdl, halDev, halTrace, attempts>>
udfv == <<factoryQueries, initCalls>>
sessv == <<nSessions, closed, out>>
notv == <<npc, nChecked, lastNotify>>

vars == <<pc, aborted, inst, halv, devices, udfv, dtorLog, sessv, props, notv>>

NoDevice == [opened |-> FALSE, version |-> 0, notifySet |-> FALSE, closed |-> FALSE]

NoProps == [status |-> "none", out |-> <<>>]

NoCheck == [exists |-> FALSE, sess |-> 0, wasClosed |-> FALSE]

NoNotify == [result |-> "none", exists |-> FALSE, sess |-> 0, wasClosed |-> FALSE,
             to |-> 0, toClosed |-> FALSE, aliveAtDelivery |-> FALSE]

\* The state when the constructor's body starts: the member initialisers have
\* run, the static sInstance is still zero-initialised.
Init ==
    /\ pc = "ctor_body"
    /\ aborted = "no"
    /\ sInstance = "null"
    /\ mSession = nullptr
    /\ mSensorType = "UNKNOWN"
    /\ mMaxEnrollmentsPerUser = MAX_ENROLLMENTS_PER_USER
    /\ mSupportsGestures = FALSE
    /\ mDevice = nullptr
    /\ mUdfpsHandlerFactory = nullptr
    /\ mUdfpsHandler = nullptr
    /\ modIdx = 1
    /\ halMdl = "null"
    /\ halDev = nullptr
    /\ halTrace = <<>>
    /\ attempts = <<>>
    /\ devices = [d \in 1..NumModules |-> NoDevice]
    /\ factoryQueries = 0
    /\ initCalls = <<>>
    /\ dtorLog = <<>>
    /\ nSessions = 0
    /\ closed = {}
    /\ out = nullptr
    /\ props = NoProps
    /\ npc = "idle"
    /\ nChecked = NoCheck
    /\ lastNotify = NoNotify

Running == aborted = "no"

\* The instance's storage is live: from the constructor's body to the end of
\* the destructor's.
InstanceExists == pc # "destroyed"

\* ------------------------------------------------------------ constructor

\* Fingerprint::Fingerprint, line 58.
CtorBody ==
    /\ Running /\ pc = "ctor_body"
    /\ sInstance' = "this"
    /\ modIdx' = 1
    /\ pc' = "ctor_loop"
    /\ UNCHANGED <<aborted, mSession, mSensorType, mMaxEnrollmentsPerUser,
                   mSupportsGestures, mDevice, mUdfpsHandlerFactory, mUdfpsHandler,
                   halMdl, halDev, halTrace, attempts, devices, udfv, dtorLog,
                   sessv, props, notv>>

\* The for loop's head: the next kModules entry is handed to openHal, or the
\* table is exhausted.
CtorLoop ==
    /\ Running /\ pc = "ctor_loop"
    /\ IF modIdx <= NumModules
         THEN /\ pc' = "hal_get_module"
              /\ halMdl' = "null"
              /\ halDev' = nullptr
              /\ halTrace' = <<>>
         ELSE /\ pc' = "ctor_udfps"
              /\ UNCHANGED <<halMdl, halDev, halTrace>>
    /\ UNCHANGED <<aborted, inst, modIdx, attempts, devices, udfv, dtorLog,
                   sessv, props, notv>>

\* openHal returns ret to the loop body: mDevice = openHal(...); on nullptr
\* continue with the next entry, otherwise take the entry's sensor type and break.
\* (Faulty variant: the loop goes on after a module opened.)
HalReturn_NoBreak(ret) ==
    /\ attempts' = Append(attempts, [idx |-> modIdx, ret |-> ret])
    /\ mDevice' = ret
    /\ modIdx' = modIdx + 1
    /\ pc' = "ctor_loop"
    /\ mSensorType' = IF ret = nullptr THEN mSensorType
                      ELSE kModules[modIdx].sensor_type

HalReturn(ret) ==
    /\ attempts' = Append(attempts, [idx |-> modIdx, ret |-> ret])
    /\ mDevice' = ret
    /\ IF ret = nullptr
         THEN /\ modIdx' = modIdx + 1
              /\ pc' = "ctor_loop"
              /\ UNCHANGED mSensorType
         ELSE /\ mSensorType' = kModules[modIdx].sensor_type
              /\ pc' = "ctor_udfps"
              /\ UNCHANGED modIdx

Step(name, ok) == [step |-> name, ok |-> ok]

\* openHal, hw_get_module_by_class and the hw_mdl == nullptr test.
HalGetModule ==
    /\ Running /\ pc = "hal_get_module"
    /\ \E a \in ModuleAnswers :
         LET ok == a.err = 0 /\ a.mdl # "null" IN
         /\ halTrace' = Append(halTrace, Step("get_module", ok))
         /\ halMdl' = a.mdl
         /\ IF ok
              THEN /\ pc' = "hal_check_open"
                   /\ UNCHANGED <<mDevice, mSensorType, modIdx, attempts>>
              ELSE HalReturn(nullptr)
    /\ UNCHANGED <<aborted, sInstance, mSession, mMaxEnrollmentsPerUser,
                   mSupportsGestures, mUdfpsHandlerFactory, mUdfpsHandler,
                   halDev, devices, udfv, dtorLog, sessv, props, notv>>

\* openHal, the module->common.methods->open == nullptr test.
HalCheckOpen ==
    /\ Running /\ pc = "hal_check_open"
    /\ halTrace' = Append(halTrace, Step("open_method", halMdl = "ok"))
    /\ IF halMdl = "ok"
         THEN /\ pc' = "hal_open"
              /\ UNCHANGED <<mDevice, mSensorType, modIdx, attempts>>
         ELSE HalReturn(nullptr)
    /\ UNCHANGED <<aborted, sInstance, mSession, mMaxEnrollmentsPerUser,
                   mSupportsGestures, mUdfpsHandlerFactory, mUdfpsHandler,
                   halMdl, halDev, devices, udfv, dtorLog, sessv, props, notv>>

\* openHal, the module's open: on 0 the vendor hands back a device handle.
HalOpen ==
    /\ Running /\ pc = "hal_open"
    /\ \E err \in ErrCodes, v \in DeviceVersions :
         /\ halTrace' = Append(halTrace, Step("open", err = 0))
         /\ IF err = 0
              THEN /\ halDev' = modIdx
                   /\ devices' = [devices EXCEPT ![modIdx] =
                                     [NoDevice EXCEPT !.opened = TRUE, !.version = v]]
                   /\ pc' = "hal_version"
                   /\ UNCHANGED <<mDevice, mSensorType, modIdx, attempts>>
              ELSE /\ UNCHANGED <<halDev, devices>>
                   /\ HalReturn(nullptr)
    /\ UNCHANGED <<aborted, sInstance, mSession, mMaxEnrollmentsPerUser,
                   mSupportsGestures, mUdfpsHandlerFactory, mUdfpsHandler,
                   halMdl, udfv, dtorLog, sessv, props, notv>>

\* openHal's version test: kVersion != device->version rejects the device.
\* (Faulty variant: any version passes.)
VersionOk_Any(v) == TRUE

VersionOk(v) == v = kVersion

HalVersion ==
    /\ Running /\ pc = "hal_version"
    /\ LET ok == VersionOk(devices[halDev].version) IN
       /\ halTrace' = Append(halTrace, Step("version", ok))
       /\ IF ok
            THEN /\ pc' = "hal_set_notify"
                 /\ UNCHANGED <<mDevice, mSensorType, modIdx, attempts>>
            ELSE HalReturn(nullptr)
    /\ UNCHANGED <<aborted, sInstance, mSession, mMaxEnrollmentsPerUser,
                   mSupportsGestures, mUdfpsHandlerFactory, mUdfpsHandler,
                   halMdl, halDev, devices, udfv, dtorLog, sessv, props, notv>>

\* openHal, fp_device->set_notify(fp_device, Fingerprint::notify) and the return.
HalSetNotify ==
    /\ Running /\ pc = "hal_set_notify"
    /\ \E err \in ErrCodes :
         /\ halTrace' = Append(halTrace, Step("set_notify", err = 0))
         /\ devices' = [devices EXCEPT ![halDev].notifySet = (err = 0)]
         /\ HalReturn(IF err = 0 THEN halDev ELSE nullptr)
    /\ UNCHANGED <<aborted, sInstance, mSession, mMaxEnrollmentsPerUser,
                   mSupportsGestures, mUdfpsHandlerFactory, mUdfpsHandler,
                   halMdl, halDev, udfv, dtorLog, sessv, props, notv>>

\* The constructor's sensor-type test before the UDFPS set-up.
\* (Faulty variant: the set-up runs for every sensor type.)
IsUdfps_Always(t) == TRUE

IsUdfps(t) == t = "UNDER_DISPLAY_OPTICAL" \/ t = "UNDER_DISPLAY_ULTRASONIC"

\* The constructor's tail: the UDFPS handler factory, create and init.
CtorUdfps ==
    /\ Running /\ pc = "ctor_udfps"
    /\ IF IsUdfps(mSensorType)
         THEN \E fac \in {0, 1}, h \in {0, 1} :
                /\ factoryQueries' = factoryQueries + 1
                /\ mUdfpsHandlerFactory' = fac
                /\ mUdfpsHandler' = IF fac = nullptr THEN nullptr ELSE h
                /\ initCalls' = IF fac # nullptr /\ h # nullptr
                                  THEN Append(initCalls, mDevice)
                                  ELSE initCalls
         ELSE UNCHANGED <<factoryQueries, mUdfpsHandlerFactory, mUdfpsHandler, initCalls>>
    /\ pc' = "alive"
    /\ UNCHANGED <<aborted, sInstance, mSession, mSensorType, mMaxEnrollmentsPerUser,
                   mSupportsGestures, mDevice, halv, devices, dtorLog, sessv,
                   props, notv>>

\* -------------------------------------------------------- getSensorProps

\* property_get_int32(key, default_value): the default when the key is unset.
property_get_int32(p, default_value) == IF p.set THEN p.val ELSE default_value

\* A default-constructed SensorLocation.
DefaultSensorLocation == [sensorLocationX |-> 0, sensorLocationY |-> 0, sensorRadius |-> 0]

\* getSensorProps' test of the three values read.
\* (Faulty variant: || in place of &&.)
LocationValid_Any(x, y, r) == x >= 0 \/ y >= 0 \/ r >= 0

LocationValid(x, y, r) == x >= 0 /\ y >= 0 /\ r >= 0

\* The sensorLocation getSensorProps ends with, given the three values read.
SensorLocationOf(x, y, r) ==
    IF LocationValid(x, y, r)
      THEN [sensorLocationX |-> x, sensorLocationY |-> y, sensorRadius |-> r]
      ELSE DefaultSensorLocation

\* The vector assigned to *out.
\* (Faulty variant: the sensor type is left at UNKNOWN.)
SensorPropsOf_NoType(location) ==
    << [sensorId |-> SENSOR_ID,
        sensorStrength |-> SENSOR_STRENGTH,
        maxEnrollmentsPerUser |-> mMaxEnrollmentsPerUser,
        sensorType |-> "UNKNOWN",
        sensorLocations |-> <<location>>,
        supportsNavigationGestures |-> mSupportsGestures] >>

SensorPropsOf(location) ==
    << [sensorId |-> SENSOR_ID,
        sensorStrength |-> SENSOR_STRENGTH,
        maxEnrollmentsPerUser |-> mMaxEnrollmentsPerUser,
        sensorType |-> mSensorType,
        sensorLocations |-> <<location>>,
        supportsNavigationGestures |-> mSupportsGestures] >>

\* Fingerprint::getSensorProps with the three position properties as stored.
GetSensorPropsWith(px, py, pr) ==
    /\ Running /\ pc = "alive"
    /\ LET x == property_get_int32(px, -1)
           y == property_get_int32(py, -1)
           r == property_get_int32(pr, -1)
       IN props' = [status |-> "ok", out |-> SensorPropsOf(SensorLocationOf(x, y, r))]
    /\ UNCHANGED <<pc, aborted, inst, halv, devices, udfv, dtorLog, sessv, notv>>

GetSensorProps == \E px \in PropStore, py \in PropStore, pr \in PropStore :
                     GetSensorPropsWith(px, py, pr)

\* --------------------------------------------------------- createSession

\* Session::isClosed.
isClosed(s) == s \in closed

\* The condition of createSession's CHECK.
\* (Faulty variant: no CHECK.)
SessionCheck_None == TRUE

SessionCheck == mSession = nullptr \/ isClosed(mSession)

\* Fingerprint::createSession: a failed CHECK aborts the process; otherwise a
\* new Session is made, held in mSession and handed out through *out.
\* (linkToDeath registers with the binder runtime and is outside this file.)
CreateSession ==
    /\ Running /\ pc = "alive"
    /\ IF SessionCheck
         THEN /\ nSessions < MaxSessions
              /\ nSessions' = nSessions + 1
              /\ mSession' = nSessions + 1
              /\ out' = nSessions + 1
              /\ UNCHANGED aborted
         ELSE /\ aborted' = "check"
              /\ UNCHANGED <<nSessions, mSession, out>>
    /\ UNCHANGED <<pc, sInstance, mSensorType, mMaxEnrollmentsPerUser,
                   mSupportsGestures, mDevice, mUdfpsHandlerFactory, mUdfpsHandler,
                   halv, devices, udfv, dtorLog, closed, props, notv>>

\* The framework (or the death of its binder) closes a session it was handed.
SessionClose ==
    /\ Running
    /\ \E s \in (1..nSessions) \ closed : closed' = closed \cup {s}
    /\ UNCHANGED <<pc, aborted, inst, halv, devices, udfv, dtorLog, nSessions, out,
                   props, notv>>

\* ---------------------------------------------------------------- notify

\* The vendor calls back only through a device that took the callback and is
\* still open.
CallbackLive == \E d \in 1..NumModules : devices[d].notifySet /\ ~devices[d].closed

\* What a read of thisPtr->mSession yields.  After the destructor sInstance
\* still holds the address of the destroyed instance, so the read is of freed
\* storage: any pointer value.
ReadSession == IF InstanceExists THEN {mSession} ELSE 0..nSessions

Dropped(s, wasClosed) ==
    [result |-> "dropped", exists |-> InstanceExists, sess |-> s, wasClosed |-> wasClosed,
     to |-> 0, toClosed |-> FALSE, aliveAtDelivery |-> FALSE]

\* Fingerprint::notify, thisPtr == nullptr || thisPtr->mSession == nullptr.
NotifyEnter ==
    /\ Running /\ npc = "idle" /\ CallbackLive
    /\ IF sInstance = "null"
         THEN /\ lastNotify' = Dropped(0, FALSE)
              /\ UNCHANGED npc
         ELSE \E s \in ReadSession :
                IF s = nullptr
                  THEN /\ lastNotify' = Dropped(0, FALSE)
                       /\ UNCHANGED npc
                  ELSE /\ npc' = "is_closed"
                       /\ UNCHANGED lastNotify
    /\ UNCHANGED <<pc, aborted, inst, halv, devices, udfv, dtorLog, sessv, props, nChecked>>

\* Fingerprint::notify, thisPtr->mSession->isClosed().
NotifyIsClosed ==
    /\ Running /\ npc = "is_closed"
    /\ \E s \in ReadSession :
         IF s = nullptr
           THEN /\ aborted' = "segv"
                /\ UNCHANGED <<npc, nChecked, lastNotify>>
           ELSE IF isClosed(s)
             THEN /\ lastNotify' = Dropped(s, TRUE)
                  /\ npc' = "idle"
                  /\ UNCHANGED <<aborted, nChecked>>
             ELSE /\ nChecked' = [exists |-> InstanceExists, sess |-> s, wasClosed |-> FALSE]
                  /\ npc' = "deliver"
                  /\ UNCHANGED <<aborted, lastNotify>>
    /\ UNCHANGED <<pc, inst, halv, devices, udfv, dtorLog, sessv, props>>

\* Fingerprint::notify, thisPtr->mSession->notify(msg).
NotifyDeliver ==
    /\ Running /\ npc = "deliver"
    /\ \E s \in ReadSession :
         IF s = nullptr
           THEN /\ aborted' = "segv"
                /\ UNCHANGED <<npc, lastNotify>>
           ELSE /\ lastNotify' = [result |-> "forwarded",
                                  exists |-> nChecked.exists,
                                  sess |-> nChecked.sess,
                                  wasClosed |-> nChecked.wasClosed,
                                  to |-> s,
                                  toClosed |-> isClosed(s),
                                  aliveAtDelivery |-> InstanceExists]
                /\ npc' = "idle"
                /\ UNCHANGED aborted
    /\ UNCHANGED <<pc, inst, halv, devices, udfv, dtorLog, sessv, props, nChecked>>

\* ------------------------------------------------------------ destructor

\* Fingerprint::~Fingerprint, the UDFPS handler.
DtorHandler ==
    /\ Running /\ pc = "alive"
    /\ IF mUdfpsHandler # nullptr
         THEN IF mUdfpsHandlerFactory = nullptr
                THEN /\ aborted' = "segv"
                     /\ UNCHANGED <<pc, dtorLog>>
                ELSE /\ dtorLog' = Append(dtorLog, [call |-> "destroy", dev |-> 0, err |-> 0])
                     /\ pc' = "dtor_close"
                     /\ UNCHANGED aborted
         ELSE /\ pc' = "dtor_close"
              /\ UNCHANGED <<aborted, dtorLog>>
    /\ UNCHANGED <<inst, halv, devices, udfv, sessv, props, notv>>

\* What mDevice holds once close has returned err.
\* (Faulty variant: mDevice is cleared whatever close returned.)
AfterClose_Always(err) == nullptr

AfterClose(err) == IF err = 0 THEN nullptr ELSE mDevice

\* Fingerprint::~Fingerprint, the device.
DtorClose ==
    /\ Running /\ pc = "dtor_close"
    /\ IF mDevice = nullptr
         THEN UNCHANGED <<mDevice, devices, dtorLog>>
         ELSE \E err \in ErrCodes :
                /\ dtorLog' = Append(dtorLog, [call |-> "close", dev |-> mDevice, err |-> err])
                /\ devices' = [devices EXCEPT ![mDevice].closed = (err = 0)]
                /\ mDevice' = AfterClose(err)
    /\ pc' = "destroyed"
    /\ UNCHANGED <<aborted, sInstance, mSession, mSensorType, mMaxEnrollmentsPerUser,
                   mSupportsGestures, mUdfpsHandlerFactory, mUdfpsHandler, halv, udfv,
                   sessv, props, notv>>

\* The constructor, the binder thread's calls and the destructor.
NextBinder ==
    \/ CtorBody
    \/ CtorLoop
    \/ HalGetModule
    \/ HalCheckOpen
    \/ HalOpen
    \/ HalVersion
    \/ HalSetNotify
    \/ CtorUdfps
    \/ GetSensorProps
    \/ CreateSession
    \/ SessionClose
    \/ DtorHandler
    \/ DtorClose

\* The vendor's callback thread.
NextVendor ==
    \/ NotifyEnter
    \/ NotifyIsClosed
    \/ NotifyDeliver

Next == NextBinder \/ NextVendor

Spec == Init /\ [][Next]_vars

\* The instance without the vendor's callback thread, which writes nothing
\* getSensorProps reads or writes.
SpecBinder == Init /\ [][NextBinder]_vars

\* ---------------------------------------------------------------- claims

OpenSessions == (1..nSessions) \ closed

\* C1: createSession goes on only when no session is held or the held one is
\* closed, and then hands out through *out the new session it keeps in
\* mSession; with an open session held its CHECK aborts and leaves mSession
\* and *out as they were.  At most one session is ever open, and *out is
\* mSession.
C1_CreateSessionGuard ==
    [][ /\ CreateSession =>
            IF mSession = 0 \/ mSession \in closed
              THEN /\ aborted' = "no"
                   /\ mSession' \notin 0..nSessions
                   /\ mSession' \notin closed'
                   /\ out' = mSession'
              ELSE /\ aborted' = "check"
                   /\ mSession' = mSession
                   /\ out' = out
                   /\ nSessions' = nSessions
        /\ Cardinality(OpenSessions') <= 1
        /\ out' = mSession' ]_vars

C1_Witness ==
    /\ nSessions = 2 /\ closed = {1}
    /\ mSession = 2 /\ out = 2
    /\ aborted = "no"

\* The steps of openHal in their order.
HalOrder == <<"get_module", "open_method", "open", "version", "set_notify">>

InHal == pc \in {"hal_get_module", "hal_check_open", "hal_open", "hal_version",
                 "hal_set_notify"}

\* C2: openHal takes its steps in the order module lookup, open method, open,
\* version test, set_notify, each only after every earlier one succeeded; it
\* returns a device exactly when all of them succeeded, and that device
\* reports kVersion and took the callback; set_notify is never reached for a
\* device of another version.
C2_OpenHalOrder ==
    /\ Len(halTrace) <= Len(HalOrder)
    /\ \A i \in 1..Len(halTrace) :
         /\ halTrace[i].step = HalOrder[i]
         /\ i < Len(halTrace) => halTrace[i].ok
    /\ (\E i \in 1..Len(halTrace) : halTrace[i].step = "set_notify")
           => /\ halDev # 0
              /\ devices[halDev].opened
              /\ devices[halDev].version = 513
    /\ (~InHal /\ attempts # <<>>) =>
         LET ret == attempts[Len(attempts)].ret
             allOk == /\ Len(halTrace) = Len(HalOrder)
                      /\ \A i \in 1..Len(halTrace) : halTrace[i].ok
         IN /\ (ret # 0) <=> allOk
            /\ ret # 0 => /\ ret = halDev
                          /\ devices[ret].opened
                          /\ devices[ret].version = 513
                          /\ devices[ret].notifySet

C2_Witness ==
    /\ ~InHal /\ Len(attempts) = 2
    /\ attempts[1].ret = 0 /\ devices[1].opened /\ devices[1].version # 513
    /\ attempts[2].ret = 2 /\ devices[2].notifySet

\* The sensor type the constructor settled on, read off its openHal calls.
ChosenSensorType ==
    IF attempts # <<>> /\ attempts[Len(attempts)].ret # 0
      THEN kModules[attempts[Len(attempts)].idx].sensor_type
      ELSE "UNKNOWN"

\* C3: getSensorProps returns ok with exactly one entry: sensor id 0, strength
\* STRONG, 7 enrollments per user, the sensor type settled at construction
\* (UNKNOWN when no module opened); it leaves mSession, mDevice and
\* mSensorType alone, whatever the device and the session are.
C3_SensorPropsFrame ==
    [][ GetSensorProps =>
          /\ props'.status = "ok"
          /\ Len(props'.out) = 1
          /\ props'.out[1].sensorId = 0
          /\ props'.out[1].sensorStrength = "STRONG"
          /\ props'.out[1].maxEnrollmentsPerUser = 7
          /\ props'.out[1].sensorType = ChosenSensorType
          /\ (mDevice = 0 => props'.out[1].sensorType = "UNKNOWN")
          /\ mSession' = mSession
          /\ mDevice' = mDevice
          /\ mSensorType' = mSensorType ]_vars

C3_Witness ==
    /\ props.status = "ok"
    /\ props.out[1].sensorType = "UNDER_DISPLAY_OPTICAL"
    /\ mDevice # 0
    /\ mSession # 0 /\ mSession \notin closed

LoopDone == pc \in {"ctor_udfps", "alive", "dtor_close"}

\* C4: the constructor hands the kModules entries to openHal in their listed
\* order and stops at the first that opens: mDevice is that device and
\* mSensorType that entry's type; when none opens, every entry was tried,
\* mDevice is null and mSensorType is UNKNOWN.
C4_FirstModuleWins ==
    /\ \A i \in 1..Len(attempts) :
         /\ attempts[i].idx = i
         /\ i < Len(attempts) => attempts[i].ret = 0
    /\ Len(attempts) >= 1 => kModules[attempts[1].idx].id_name = "fingerprint.goodix_fod"
    /\ Len(attempts) >= 2 => kModules[attempts[2].idx].id_name = "fingerprint"
    /\ LoopDone =>
         IF \E i \in 1..Len(attempts) : attempts[i].ret # 0
           THEN LET last == attempts[Len(attempts)] IN
                /\ mDevice = last.ret
                /\ mSensorType = kModules[last.idx].sensor_type
           ELSE /\ Len(attempts) = 2
                /\ mDevice = 0
                /\ mSensorType = "UNKNOWN"

C4_Witness ==
    /\ pc = "alive"
    /\ Len(attempts) = 1
    /\ mDevice = 1
    /\ mSensorType = "UNDER_DISPLAY_OPTICAL"

\* C5: a callback is forwarded exactly when, at notify's test, the instance
\* exists, holds a session and that session is not closed; otherwise it is
\* dropped; nothing is forwarded before the first createSession.
C5_ForwardIffOpenSession ==
    /\ lastNotify.result = "forwarded" =>
         /\ lastNotify.exists
         /\ lastNotify.sess # 0
         /\ ~lastNotify.wasClosed
    /\ lastNotify.result = "dropped" =>
         ~(lastNotify.exists /\ lastNotify.sess # 0 /\ ~lastNotify.wasClosed)
    /\ nSessions = 0 => lastNotify.result # "forwarded"

\* C6: the location reported is the three values read when all three are
\* >= 0, and the default location when any of them is negative or unset.
C6_LocationAllOrNothing ==
    [][ \A px \in PropStore, py \in PropStore, pr \in PropStore :
          GetSensorPropsWith(px, py, pr) =>
            LET x == IF px.set THEN px.val ELSE -1
                y == IF py.set THEN py.val ELSE -1
                r == IF pr.set THEN pr.val ELSE -1
                loc == props'.out[1].sensorLocations
            IN /\ Len(loc) = 1
               /\ IF x >= 0 /\ y >= 0 /\ r >= 0
                    THEN loc[1] = [sensorLocationX |-> x, sensorLocationY |-> y,
                                   sensorRadius |-> r]
                    ELSE loc[1] = [sensorLocationX |-> 0, sensorLocationY |-> 0,
                                   sensorRadius |-> 0] ]_vars

C6_Witness ==
    /\ props.status = "ok"
    /\ props.out[1].sensorLocations[1] =
         [sensorLocationX |-> 3, sensorLocationY |-> 0, sensorRadius |-> 3]

Calls(name) == {i \in 1..Len(dtorLog) : dtorLog[i].call = name}

\* C7: the destructor destroys the UDFPS handler, when there is one, before it
\* closes the device; it calls close at most once and only on a non-null
\* mDevice; mDevice becomes null only when close returned 0 and otherwise
\* keeps the device.
C7_DestructorOrder ==
    /\ Cardinality(Calls("close")) <= 1
    /\ Cardinality(Calls("destroy")) <= 1
    /\ \A i \in Calls("destroy"), j \in Calls("close") : i < j
    /\ \A j \in Calls("close") : dtorLog[j].dev # 0
    /\ pc \in {"dtor_close", "destroyed"} =>
         (mUdfpsHandler # 0 <=> Calls("destroy") # {})
    /\ pc = "destroyed" =>
         IF Calls("close") = {}
           THEN /\ mDevice = 0
                /\ \A i \in 1..Len(attempts) : attempts[i].ret = 0
           ELSE \A j \in Calls("close") :
                  /\ dtorLog[j].dev = attempts[Len(attempts)].ret
                  /\ mDevice = (IF dtorLog[j].err = 0 THEN 0 ELSE dtorLog[j].dev)
                  /\ devices[dtorLog[j].dev].closed <=> (dtorLog[j].err = 0)

C7_Witness ==
    /\ pc = "destroyed"
    /\ Len(dtorLog) = 2
    /\ dtorLog[1].call = "destroy"
    /\ dtorLog[2].call = "close" /\ dtorLog[2].err # 0
    /\ mDevice = dtorLog[2].dev

\* C8: between the constructor's end and the destructor's last statement a
\* non-null mUdfpsHandler comes with a non-null mDevice and a non-null
\* mUdfpsHandlerFactory; the handler exists exactly when init was called,
\* once, with the opened device; the factory is queried only after a module
\* opened with an under-display type, and init never gets a null device.
C8_UdfpsHandlerInvariant ==
    /\ pc \in {"alive", "dtor_close"} =>
         /\ mUdfpsHandler # 0 => (mDevice # 0 /\ mUdfpsHandlerFactory # 0)
         /\ mUdfpsHandler # 0 <=> initCalls = <<mDevice>>
    /\ Len(initCalls) <= 1
    /\ factoryQueries <= 1
    /\ \A i \in 1..Len(initCalls) :
         /\ initCalls[i] # 0
         /\ devices[initCalls[i]].opened
         /\ initCalls[i] = attempts[Len(attempts)].ret
    /\ factoryQueries > 0 =>
         \E i \in 1..Len(attempts) :
           /\ attempts[i].ret # 0
           /\ kModules[attempts[i].idx].sensor_type
                \in {"UNDER_DISPLAY_OPTICAL", "UNDER_DISPLAY_ULTRASONIC"}
    /\ (\A i \in 1..Len(attempts) : attempts[i].ret = 0) =>
         (factoryQueries = 0 /\ initCalls = <<>> /\ mUdfpsHandler = 0)

C8_Witness ==
    /\ pc = "alive"
    /\ mUdfpsHandler # 0
    /\ mUdfpsHandlerFactory # 0
    /\ initCalls = <<mDevice>>
    /\ factoryQueries = 1

\* C9: once the constructor is done, every device handle a vendor open
\* returned is held in mDevice or has been closed.
C9_NoLeakedDevice ==
    pc = "alive" =>
      \A d \in 1..NumModules :
        devices[d].opened => (mDevice = d \/ devices[d].closed)

\* C10: with the instance alive, a callback is delivered to a session that
\* is open at the delivery, and to the very session notify's test looked at.
C10_DeliveryToCheckedOpenSession ==
    (lastNotify.result = "forwarded" /\ lastNotify.exists /\ lastNotify.aliveAtDelivery) =>
      /\ ~lastNotify.toClosed
      /\ lastNotify.to = lastNotify.sess

====
